---- MODULE Spec2Model ----
(***************************************************************************)
(* Credential lifecycle and rotation engine.                               *)
(*                                                                         *)
(* The orchestrator is rotate_credential of checkcredentials.py; it calls  *)
(* security.rotate_credential (security/modules/credentials.py, the        *)
(* package that `import security` resolves to), validate_credential_       *)
(* strength, check_haveibeenpwned and update_environment_file.  Two        *)
(* callers run the orchestrator concurrently; every file operation         *)
(* (open / read / write) is one step, so the interleavings of the          *)
(* multi-step file updates are explored.                                   *)
(*                                                                         *)
(* The call at checkcredentials.py:460 has two outcomes in the model: it   *)
(* raises (as written it passes one argument to a two-parameter function,  *)
(* and the monolithic security.py raises NameError at line 1416), which    *)
(* the except clause at 492 turns into a failure result; or it returns     *)
(* the new credential and the orchestrator continues at line 462.          *)
(*                                                                         *)
(* main() is modelled from its expiration check to its exit code.  Its     *)
(* call of generate_report has two outcomes as well: it raises KeyError    *)
(* at line 312 on any warning (the warnings of check_credential_expiration *)
(* have no 'last_rotation' key), which ends main() with exit code 1; or    *)
(* the report is produced and main() continues at line 545.                *)
(*                                                                         *)
(* validate_credential_strength, check_haveibeenpwned and the wrapper of   *)
(* audit_log are also run on their own, on texts, digests and calls drawn  *)
(* from small sets (SpecValidate, SpecBreach, SpecAudit), and so are the   *)
(* two mask_credential functions (SpecMask) and the generator with the     *)
(* two rotate_credential functions that call it (SpecGen).                 *)
(*                                                                         *)
(* update_environment_file is also driven by direct calls (SpecApply), and *)
(* automatic rotations run after run (SpecRuns).  SpecShared has two       *)
(* processes on one metadata file, saving (security.initialize) and        *)
(* reading it; SpecScan has the scans of security.py and of the package,   *)
(* with the metadata security.py keeps in its module global.               *)
(***************************************************************************)
EXTENDS Integers, Sequences, FiniteSets, TLC

\* ---------------------------------------------------------------- bounds
MaxRotations == 1      \* rotate_credential calls each caller makes
MaxFaults == 2         \* injected I/O failures in one behaviour
MaxClock == 1          \* seconds that pass in one behaviour
MaxApplies == 2        \* direct calls of update_environment_file
MaxRuns == 2           \* automatic rotations started one after the other
MaxScans == 2          \* check_credential_expiration calls of one process

Procs == {"c1", "c2"}  \* concurrent callers of rotate_credential

\* ------------------------------------------------------- program constants
RotateDays == 90           \* credentials.py:424   timedelta(days=90)
InitDays == 90             \* credentials.py:442   timedelta(days=90)
MinLength == 12            \* PASSWORD_STRENGTH_RULES['length']
CrucialMinScore == 70      \* checkcredentials.py:472
GenLength == 24            \* credentials.py:409 (else branch)
BreachCount == 3           \* a COUNT > 0 returned by the range service

SecondsPerDay == 24 * 60 * 60
Days(n) == n * SecondsPerDay

\* credential types the orchestrator is called with
Types == {"API_KEY", "DB_PASSWORD", "MAIL_API_KEY"}
\* keys of CREDENTIAL_TYPES (security.py:70-106)
CREDENTIAL_TYPES == {"API_KEY", "DB_PASSWORD", "MAIL_API_KEY", "LOGGING_API_KEY", "SECRET_TOKEN"}
\* keys written by the package's init_credential_metadata (credentials.py:437)
LowerTypes == {"api_key", "db_password", "mail_api_key", "logging_api_key"}
\* a type name that is not a key of CREDENTIAL_TYPES, as --force can pass
UnregisteredType == "LEGACY_KEY"
MetaKeys == CREDENTIAL_TYPES \cup LowerTypes \cup {UnregisteredType}

\* rotation_interval_days of CREDENTIAL_TYPES (security.py:72,79,86,93,100)
rotation_interval_days(t) ==
    CASE t = "DB_PASSWORD" -> 60
      [] t = "SECRET_TOKEN" -> 30
      [] OTHER -> 90

\* checkcredentials.py:453
TwoFactorTypes == {"API_KEY", "DB_PASSWORD", "SECRET_TOKEN"}
\* checkcredentials.py:472
CrucialTypes == {"DB_PASSWORD", "SECRET_TOKEN"}
\* checkcredentials.py:188
ExemptTypes == {"SESSION_TOKEN", "TEMP_TOKEN"}
\* checkcredentials.py:477 and 383: credential_type.endswith('PASSWORD')
PasswordLike(t) == t \in {"DB_PASSWORD"}

\* ------------------------------------------------------------ data shapes
Absent == -1
\* no masked_value in the record
AbsentMask == <<"absent">>
\* "*" * n: a run of n characters, empty when n is not positive
Repeat(ch, n) == [i \in 1..n |-> ch]
\* credential[-n:] for a text of more than n characters
LastChars(credential, n) == SubSeq(credential, Len(credential) - n + 1, Len(credential))
\* mask_credential of the package (utils.py:38-55): a text of at most 8
\* characters keeps its first and last character, a longer one its first and
\* last four; the stars between them number len - 2 or len - 8
mask_credential(credential) ==
    IF credential = <<>> THEN <<>>
    ELSE IF Len(credential) <= 8
         THEN <<credential[1]>> \o Repeat("*", Len(credential) - 2)
                               \o <<credential[Len(credential)]>>
         ELSE SubSeq(credential, 1, 4) \o Repeat("*", Len(credential) - 8)
                                      \o LastChars(credential, 4)
\* mask_credential of security.py (lines 164-178)
monolith_mask_credential(credential) ==
    IF credential = <<>> THEN <<"u", "n", "d", "e", "f", "i", "n", "e", "d">>
    ELSE IF Len(credential) <= 6 THEN Repeat("*", 6)
    ELSE SubSeq(credential, 1, 3) \o <<".", ".", ".">> \o LastChars(credential, 3)
\* the value config.py read from the environment for a credential type
ConfiguredSecret == <<"s", "3", "c", "r", "3", "t", "K", "e", "y", "!">>

\* a key that is not in the metadata dictionary
NoRec == [present |-> FALSE, created |-> Absent, last_rotated |-> Absent,
          expiration |-> Absent, rec_interval_days |-> Absent,
          created_date |-> Absent, expiration_date |-> Absent,
          rotations |-> Absent, masked_value |-> AbsentMask]
\* metadata[credential_type] = {}   (credentials.py:421)
BlankRec == [NoRec EXCEPT !.present = TRUE]

EmptyMeta == [k \in MetaKeys |-> NoRec]

\* files: state is "nofile", "partial" (truncated or half written) or "ok"
NoMetaFile == [state |-> "nofile", data |-> EmptyMeta]
PartialMetaFile == [state |-> "partial", data |-> EmptyMeta]
MetaFileOf(m) == [state |-> "ok", data |-> m]

NoEnvFile == [state |-> "nofile", lines |-> <<>>]
EnvFileOf(ls) == [state |-> "ok", lines |-> ls]

\* the secret every key holds before any rotation (config.py values)
OriginalSecret == 0

FullStore == << <<"API_KEY", OriginalSecret>>, <<"DB_PASSWORD", OriginalSecret>>,
                <<"MAIL_API_KEY", OriginalSecret>> >>
\* a store without a line for API_KEY
StoreWithoutApiKey == << <<"DB_PASSWORD", OriginalSecret>>, <<"MAIL_API_KEY", OriginalSecret>> >>
InitialStores == {EnvFileOf(FullStore), EnvFileOf(StoreWithoutApiKey), NoEnvFile}

\* proper prefixes of a content: what a failed write can leave behind
ProperPrefixes(ls) == {SubSeq(ls, 1, k) : k \in 0..(Len(ls) - 1)}

\* ------------------------------------------------------------- candidates
\* A candidate is the secret's identity and the features of its text that
\* validate_credential_strength reads.
NoCand == [id |-> -1, len |-> 0, up |-> FALSE, lo |-> FALSE, dg |-> FALSE,
           sp |-> FALSE, weak |-> 0, seq |-> FALSE, rep |-> FALSE]
Cand(id, len, up, lo, dg, sp, weak, seq, rep) ==
    [id |-> id, len |-> len, up |-> up, lo |-> lo, dg |-> dg, sp |-> sp,
     weak |-> weak, seq |-> seq, rep |-> rep]

\* generate_secure_credential(length, 'medium'): random text over letters,
\* digits and "!@#$%^&*"; the texts it can return include ones with every
\* class present, ones without a special character, ones holding a weak
\* pattern, and ones without digit and special and with a sequential run.
generate_secure_credential(id, length) ==
    { Cand(id, length, TRUE, TRUE, TRUE, TRUE, 0, FALSE, FALSE),
      Cand(id, length, TRUE, TRUE, TRUE, FALSE, 0, FALSE, FALSE),
      Cand(id, length, TRUE, TRUE, TRUE, TRUE, 1, FALSE, FALSE),
      Cand(id, length, TRUE, TRUE, FALSE, FALSE, 0, TRUE, FALSE) }

Max(a, b) == IF a > b THEN a ELSE b
Min(a, b) == IF a < b THEN a ELSE b

\* the score without the penalty for a sequential run
StrengthScore_without_sequential_penalty(c) ==
    (IF c.len >= MinLength THEN 25 ELSE 0) + (IF c.up THEN 15 ELSE 0)
    + (IF c.lo THEN 15 ELSE 0) + (IF c.dg THEN 20 ELSE 0)
    + (IF c.sp THEN 25 ELSE 0) - 20 * c.weak
    - (IF c.rep THEN 10 ELSE 0)

\* validate_credential_strength (checkcredentials.py:169-265)
StrengthScore(c) ==
    (IF c.len >= MinLength THEN 25 ELSE 0) + (IF c.up THEN 15 ELSE 0)
    + (IF c.lo THEN 15 ELSE 0) + (IF c.dg THEN 20 ELSE 0)
    + (IF c.sp THEN 25 ELSE 0) - 20 * c.weak
    - (IF c.seq THEN 10 ELSE 0) - (IF c.rep THEN 10 ELSE 0)

\* the validator without the clamp of line 263
validate_credential_strength_unclamped(c, t) ==
    IF t \in ExemptTypes
    THEN [valid |-> TRUE, score |-> 100]
    ELSE [valid |-> c.len >= MinLength /\ c.up /\ c.lo /\ c.dg /\ c.sp
                    /\ c.weak = 0 /\ ~c.seq /\ ~c.rep,
          score |-> StrengthScore(c)]

validate_credential_strength(c, t) ==
    IF t \in ExemptTypes
    THEN [valid |-> TRUE, score |-> 100]
    ELSE [valid |-> c.len >= MinLength /\ c.up /\ c.lo /\ c.dg /\ c.sp
                    /\ c.weak = 0 /\ ~c.seq /\ ~c.rep,
          score |-> Max(0, Min(100, StrengthScore(c)))]

\* ------------------------------------------------------- credential texts
\* A credential text is a sequence of characters.
LowerSeq == <<"a", "b", "c", "d", "e", "f", "g", "h", "i", "j", "k", "l", "m", "n", "o", "p", "q", "r", "s", "t", "u", "v", "w", "x", "y", "z">>
UpperSeq == <<"A", "B", "C", "D", "E", "F", "G", "H", "I", "J", "K", "L", "M", "N", "O", "P", "Q", "R", "S", "T", "U", "V", "W", "X", "Y", "Z">>
DigitSeq == <<"0", "1", "2", "3", "4", "5", "6", "7", "8", "9">>
\* line 226, the 29 characters of special_chars; the grave accent is written
\* "grave"
SpecialChars == {"!", "@", "#", "$", "%", "^", "&", "*", "(", ")", "_", "+", "-", "=", "[", "]", "{", "}", "|", ";", ":", ",", ".", "<", ">", "?", "/", "~", "grave"}

Range(q) == {q[i] : i \in DOMAIN q}
\* str.lower()
ToLower(ch) ==
    IF ch \in Range(UpperSeq)
    THEN LowerSeq[CHOOSE i \in DOMAIN UpperSeq : UpperSeq[i] = ch]
    ELSE ch
Lower(credential) == [i \in DOMAIN credential |-> ToLower(credential[i])]

\* re.search of a literal pattern
Contains(credential, pattern) ==
    \E i \in 1..(Len(credential) - Len(pattern) + 1) :
        SubSeq(credential, i, i + Len(pattern) - 1) = pattern

\* lines 235-242
common_patterns == {<<"p", "a", "s", "s", "w", "o", "r", "d">>,
                    <<"1", "2", "3", "4", "5", "6">>,
                    <<"q", "w", "e", "r", "t", "y">>,
                    <<"a", "d", "m", "i", "n">>,
                    <<"w", "e", "l", "c", "o", "m", "e">>,
                    <<"l", "e", "t", "m", "e", "i", "n">>}

\* line 251: abc|bcd|...|xyz|012|123|...|789
SequentialRuns ==
    {SubSeq(LowerSeq, i, i + 2) : i \in 1..(Len(LowerSeq) - 2)}
        \cup {SubSeq(DigitSeq, i, i + 2) : i \in 1..(Len(DigitSeq) - 2)}

\* line 257: (.)\1{2,}
HasRepeat(credential) ==
    \E i \in 1..(Len(credential) - 2) :
        credential[i] = credential[i + 1] /\ credential[i + 1] = credential[i + 2]

\* what lines 194-257 read off the text
Features(credential) ==
    Cand(0, Len(credential),
         \E i \in DOMAIN credential : credential[i] \in Range(UpperSeq),
         \E i \in DOMAIN credential : credential[i] \in Range(LowerSeq),
         \E i \in DOMAIN credential : credential[i] \in Range(DigitSeq),
         \E i \in DOMAIN credential : credential[i] \in SpecialChars,
         Cardinality({pt \in common_patterns : Contains(Lower(credential), pt)}),
         \E run \in SequentialRuns : Contains(Lower(credential), run),
         HasRepeat(credential))

\* result["issues"]: the checks of lines 194-260 that appended an issue
Issues(c, t) ==
    IF t \in ExemptTypes THEN {}
    ELSE (IF c.len < MinLength THEN {"length"} ELSE {})
         \cup (IF ~c.up THEN {"uppercase"} ELSE {})
         \cup (IF ~c.lo THEN {"lowercase"} ELSE {})
         \cup (IF ~c.dg THEN {"digit"} ELSE {})
         \cup (IF ~c.sp THEN {"special"} ELSE {})
         \cup (IF c.weak > 0 THEN {"common pattern"} ELSE {})
         \cup (IF c.seq THEN {"sequential"} ELSE {})
         \cup (IF c.rep THEN {"repeated"} ELSE {})

\* texts the validator is called with
Text_Ab1 == <<"A", "b", "1", "!">>
Text_Abcdef12 == <<"A", "b", "c", "d", "e", "f", "1", "2", "!", "@">>
Text_Password123 == <<"P", "a", "s", "s", "w", "o", "r", "d", "1", "2", "3", "!">>
\* with them: the empty text, "admin", "Xk7!mQ2#pL9$" and "QWERTY-LETMEIN"
ExampleTexts == {<<>>, Text_Ab1, Text_Abcdef12, Text_Password123,
                 <<"a", "d", "m", "i", "n">>,
                 <<"X", "k", "7", "!", "m", "Q", "2", "#", "p", "L", "9", "$">>,
                 <<"Q", "W", "E", "R", "T", "Y", "-", "L", "E", "T", "M", "E", "I", "N">>}
\* characters appended to them
AppendChars == {"$", "a", "0", "Z"}
MaxAppend == 2
ValidatedTypes == {"API_KEY", "DB_PASSWORD", "SESSION_TOKEN"}

\* ---------------------------------------------------- check_haveibeenpwned
HexSeq == <<"0", "1", "2", "3", "4", "5", "6", "7", "8", "9", "A", "B", "C", "D", "E", "F">>
DigestLength == 40         \* hashlib.sha1(...).hexdigest(): 40 characters
PrefixLength == 5          \* line 151: password_hash[:5]
RequestTimeout == 5        \* line 156: timeout=5
MaxLookups == 2            \* calls of check_haveibeenpwned in one behaviour

\* a 40-character upper-case hexadecimal digest with a given head and tail
Digest(head, tail) ==
    [i \in 1..DigestLength |->
        IF i <= PrefixLength THEN HexSeq[((head + i) % 16) + 1]
                             ELSE HexSeq[((tail * i + head) % 16) + 1]]

\* the passwords looked up; the first two share the first 5 characters of
\* their digest
Passwords == {"pw1", "pw2", "pw3"}
\* line 150: hashlib.sha1(password.encode('utf-8')).hexdigest().upper()
sha1_hexdigest_upper(password) ==
    CASE password = "pw1" -> Digest(2, 3)
      [] password = "pw2" -> Digest(2, 7)
      [] OTHER -> Digest(9, 5)

\* lines 151-152
hash_prefix(password_hash) == SubSeq(password_hash, 1, PrefixLength)
hash_suffix(password_hash) == SubSeq(password_hash, PrefixLength + 1, Len(password_hash))

\* line 81
HAVEIBEENPWNED_API == <<"https://api.pwnedpasswords.com/range/">>

NoRequest == [url |-> <<>>, timeout |-> 0]

\* a request that carries the whole digest
RangeRequest_with_full_hash(password_hash) ==
    [url |-> HAVEIBEENPWNED_API \o password_hash, timeout |-> RequestTimeout]

\* line 156: requests.get(f"{HAVEIBEENPWNED_API}{hash_prefix}", timeout=5)
RangeRequest(password_hash) ==
    [url |-> HAVEIBEENPWNED_API \o hash_prefix(password_hash), timeout |-> RequestTimeout]

\* the lines SUFFIX:COUNT the service can answer with
RangeLines == {<<hash_suffix(sha1_hexdigest_upper(pw)), BreachCount>> : pw \in Passwords}
RangeTexts == {<<>>} \cup {<<l>> : l \in RangeLines}
                 \cup {<<l, m>> : l \in RangeLines, m \in RangeLines}

\* lines 159-163 and 167: the count of the first line whose suffix is
\* hash_suffix, 0 when there is none
CountInLines(lines, suffix) ==
    IF \E i \in DOMAIN lines : lines[i][1] = suffix
    THEN lines[CHOOSE i \in DOMAIN lines :
                  /\ lines[i][1] = suffix
                  /\ \A j \in 1..(i - 1) : lines[j][1] # suffix][2]
    ELSE 0

\* ---------------------------------------------------------------- audit_log
\* line 99: the names whose values are replaced
SensitiveNames == {<<"c", "r", "e", "d", "e", "n", "t", "i", "a", "l">>,
                   <<"p", "a", "s", "s", "w", "o", "r", "d">>,
                   <<"t", "o", "k", "e", "n">>,
                   <<"k", "e", "y">>}

\* values of arguments: a secret, a plain string, and an object that
\* json.dump cannot serialize
SecretValue == "Sup3r$ecret"
PlainValue == "API_KEY"
ObjectValue == "<object>"

\* calls made through the wrapper: positional arguments, keyword arguments
\* (pairs of a name, written as its sequence of characters, and a value),
\* and whether the wrapped function returns or raises
AuditedCalls ==
    [args : {<<>>, <<SecretValue>>},
     kwargs : {{},
               {<< <<"p", "a", "s", "s", "w", "o", "r", "d">>, SecretValue >>},
               {<< <<"P", "A", "S", "S", "W", "O", "R", "D">>, SecretValue >>},
               {<< <<"c", "r", "e", "d", "e", "n", "t", "i", "a", "l", "_",
                     "t", "y", "p", "e">>, PlainValue >>},
               {<< <<"r", "e", "p", "o", "r", "t">>, ObjectValue >>}},
     func : {"returns", "raises"}]
NoCall == [args |-> <<>>, kwargs |-> {}, func |-> "none"]
MaxAuditCalls == 2

\* lines 99-100: only keyword arguments are recorded
RedactedArguments(kwargs) ==
    {<<kv[1], IF kv[1] \in SensitiveNames THEN "REDACTED" ELSE kv[2]>> : kv \in kwargs}

NoAuditData == [operation_id |-> 0, action_type |-> "none", timestamp_start |-> 0,
                user |-> "none", hostname |-> "none", source_ip |-> "none",
                arguments |-> {}, status |-> "none", timestamp_end |-> 0,
                duration_ms |-> 0, error_type |-> "none", error_message |-> "none"]

\* json.dump raises TypeError on a value it cannot serialize
Serializable(audit_data) == \A kv \in audit_data.arguments : kv[2] # ObjectValue

\* what the caller of the wrapper gets
NoOutcome == [kind |-> "none", value |-> "none"]
Returned(value) == [kind |-> "returned", value |-> value]
Raised(error_type) == [kind |-> "raised", value |-> error_type]

\* -------------------------------------------------------------- variables
VARIABLES
    clock,      \* datetime.now(), in seconds; it advances between two reads
    envFile,    \* the live store  C:/Documents/credentials/myproject/.env
    backups,    \* .env.bak.<YYYYmmdd_HHMMSS>, by second
    metaFile,   \* data/credentials/metadata.json
    pc,         \* each caller's position in rotate_credential
    loc,        \* each caller's local variables
    gh,         \* each caller's history of the current call (observation only)
    calls,      \* rotate_credential calls each caller has made
    faults,     \* I/O failures injected
    nextSecret, \* identity of the next generated secret
    cli,        \* main(): its arguments, position, warnings and exit code
    text,       \* the credential text handed to validate_credential_strength
    lookup,     \* check_haveibeenpwned: the call, the request sent, the reply
    audit       \* audit_log's wrapper: the call and the files of logs/audit

\* the state of the components that rotate_credential does not touch
harness == <<text, lookup, audit>>

vars == <<clock, envFile, backups, metaFile, pc, loc, gh, calls, faults, nextSecret,
          cli, text, lookup, audit>>

\* strftime("%Y%m%d_%H%M%S") of line 372: one backup name per second
Stamps == 0..MaxClock
Stamp(t) == t

InitLoc == [ctype |-> "none", skip |-> FALSE, cand |-> NoCand, metadata |-> EmptyMeta,
            env_content |-> <<>>, backup_env_path |-> 0, backup_content |-> <<>>,
            result |-> "none", credential_metadata |-> EmptyMeta, warnings |-> <<>>]
InitGh == [hookCalled |-> FALSE, hookDenied |-> FALSE, breachRuns |-> 0,
           breachFound |-> FALSE, breachUnavailable |-> FALSE, wrote |-> FALSE,
           overlap |-> FALSE, faulted |-> FALSE, writeFailed |-> FALSE,
           restoreFailed |-> FALSE,
           snapEnv |-> NoEnvFile, snapMeta |-> NoMetaFile, unrestored |-> {}]

\* main() not started
NoCli == [pc |-> "none", force |-> "none", auto_rotate |-> FALSE, report |-> FALSE,
          now |-> 0, expiration_results |-> <<>>, warnings |-> <<>>,
          report_saved |-> FALSE, credentials_to_rotate |-> <<>>,
          requested |-> 0, accepted |-> 0, exit_code |-> 0]
\* no call of the generator yet
NoGen == [length |-> 0, complexity |-> "none", credential_type |-> "none",
          emitted |-> 0, used |-> {}, by |-> "none"]
\* no call of the validator yet
NoText == [pc |-> "none", credential |-> <<>>, credential_type |-> "none", appended |-> 0,
           result |-> [valid |-> TRUE, score |-> 0], issues |-> {},
           masked |-> <<>>, monolith_masked |-> <<>>, gen |-> NoGen]
\* no call of check_haveibeenpwned yet
NoLookup == [pc |-> "none", password |-> "none", password_hash |-> <<>>,
             request |-> NoRequest, sent |-> <<>>, log |-> <<>>]
\* no call through audit_log's wrapper yet
NoAudit == [pc |-> "none", call |-> NoCall, audit_data |-> NoAuditData,
            pending |-> NoOutcome, files |-> <<>>, log |-> <<>>]

Init ==
    /\ clock = 0
    /\ envFile \in InitialStores
    /\ backups = [s \in Stamps |-> NoEnvFile]
    /\ metaFile = NoMetaFile
    /\ pc = [p \in Procs |-> "idle"]
    /\ loc = [p \in Procs |-> InitLoc]
    /\ gh = [p \in Procs |-> InitGh]
    /\ calls = [p \in Procs |-> 0]
    /\ faults = 0
    /\ nextSecret = OriginalSecret + 1
    /\ cli = NoCli
    /\ text = NoText
    /\ lookup = NoLookup
    /\ audit = NoAudit

\* load_credential_metadata (credentials.py:31-47): a missing file and a
\* file json.load cannot parse both give {}
load_credential_metadata(f) == IF f.state = "ok" THEN f.data ELSE EmptyMeta

CanFault == faults < MaxFaults
Goto(p, l) == pc' = [pc EXCEPT ![p] = l]
Finish(p, outcome) ==
    /\ loc' = [loc EXCEPT ![p].result = outcome]
    /\ Goto(p, "done")

\* ---------------------------------------------------------------- startup
\* credentials.py:439-448: a record for each type that has none
initial_metadata(metadata, now1, now2) ==
    [k \in MetaKeys |->
        IF k \in LowerTypes /\ metadata[k] = NoRec
        THEN [BlankRec EXCEPT !.created = now2,
                              !.last_rotated = now2,
                              !.expiration = now1 + Days(InitDays),
                              !.rec_interval_days = InitDays]
        ELSE metadata[k]]

\* init_credential_metadata of the package (credentials.py:432-451); the
\* three datetime.now() reads may fall on different ticks
init_credential_metadata ==
    /\ \A p \in Procs : calls[p] = 0
    /\ \A k \in LowerTypes : load_credential_metadata(metaFile)[k] = NoRec
    /\ \E d \in {0, 1} :
        /\ clock + d <= MaxClock
        /\ clock' = clock + d
        /\ metaFile' = MetaFileOf(initial_metadata(
                            load_credential_metadata(metaFile), clock, clock + d))
    /\ UNCHANGED <<envFile, backups, pc, loc, gh, calls, faults, nextSecret, cli, harness>>

\* the records security.py's init_credential_metadata creates (lines
\* 1439-1449) for the types that have none; secret is globals()[cred_type]
monolith_initial_metadata(metadata, now, secret) ==
    [k \in MetaKeys |->
        IF k \in CREDENTIAL_TYPES /\ metadata[k] = NoRec
        THEN [BlankRec EXCEPT !.created_date = now,
                              !.expiration_date = now + Days(rotation_interval_days(k)),
                              !.last_rotated = now,
                              !.rotations = 0,
                              !.masked_value = monolith_mask_credential(secret)]
        ELSE metadata[k]]

\* init_credential_metadata of security.py (lines 1424-1455), run at module
\* load (line 1485)
monolith_init_credential_metadata ==
    /\ \A p \in Procs : calls[p] = 0
    /\ \E k \in CREDENTIAL_TYPES : load_credential_metadata(metaFile)[k] = NoRec
    /\ metaFile' = MetaFileOf(monolith_initial_metadata(
                        load_credential_metadata(metaFile), clock, ConfiguredSecret))
    /\ UNCHANGED <<clock, envFile, backups, pc, loc, gh, calls, faults, nextSecret, cli, harness>>

\* ------------------------------------------------------ rotate_credential
\* the gate without its skip_verification test
requires_second_factor_ignoring_skip(t, skip_verification) ==
    t \in TwoFactorTypes

\* checkcredentials.py:453
requires_second_factor(t, skip_verification) ==
    t \in TwoFactorTypes /\ ~skip_verification

\* entry of rotate_credential(credential_type, skip_verification)
rotate_credential_begin(p, t, s) ==
    /\ pc[p] = "idle"
    /\ loc' = [loc EXCEPT ![p] = [InitLoc EXCEPT !.ctype = t, !.skip = s]]
    /\ gh' = [q \in Procs |->
                IF q = p
                THEN [InitGh EXCEPT !.overlap = \E r \in Procs \ {p} : pc[r] # "idle",
                                    !.snapEnv = envFile, !.snapMeta = metaFile,
                                    !.unrestored = gh[p].unrestored]
                ELSE IF pc[q] # "idle" THEN [gh[q] EXCEPT !.overlap = TRUE] ELSE gh[q]]
    /\ calls' = [calls EXCEPT ![p] = @ + 1]
    /\ Goto(p, "two_factor")
    /\ UNCHANGED <<clock, envFile, backups, metaFile, faults, nextSecret, harness>>

\* main(), line 548: rotate_credential(args.force)
force_rotate(p) ==
    /\ calls[p] < MaxRotations
    /\ \E t \in Types : rotate_credential_begin(p, t, FALSE)
    /\ UNCHANGED cli

\* main(), line 568: rotate_credential(cred_type, skip_verification=True)
auto_rotate(p) ==
    /\ calls[p] < MaxRotations
    /\ \E t \in Types : rotate_credential_begin(p, t, TRUE)
    /\ UNCHANGED cli

\* lines 453-456, the gate is not taken
two_factor_not_required(p) ==
    /\ pc[p] = "two_factor"
    /\ ~requires_second_factor(loc[p].ctype, loc[p].skip)
    /\ Goto(p, "call_security")
    /\ UNCHANGED <<clock, envFile, backups, metaFile, loc, gh, calls, faults, nextSecret, cli, harness>>

\* lines 453-454, verify_two_factor returns True
two_factor_verified(p) ==
    /\ pc[p] = "two_factor"
    /\ requires_second_factor(loc[p].ctype, loc[p].skip)
    /\ gh' = [gh EXCEPT ![p].hookCalled = TRUE]
    /\ Goto(p, "call_security")
    /\ UNCHANGED <<clock, envFile, backups, metaFile, loc, calls, faults, nextSecret, cli, harness>>

\* lines 454-456, the second-factor hook returns False
two_factor_denied(p) ==
    /\ pc[p] = "two_factor"
    /\ requires_second_factor(loc[p].ctype, loc[p].skip)
    /\ gh' = [gh EXCEPT ![p].hookCalled = TRUE, ![p].hookDenied = TRUE]
    /\ Finish(p, "rejected_second_factor")
    /\ UNCHANGED <<clock, envFile, backups, metaFile, calls, faults, nextSecret, cli, harness>>

\* line 460 raises; lines 492-494 return {"success": False, "error": str(e)}
security_rotate_raises(p) ==
    /\ pc[p] = "call_security"
    /\ Finish(p, "error")
    /\ UNCHANGED <<clock, envFile, backups, metaFile, gh, calls, faults, nextSecret, cli, harness>>

\* security.rotate_credential, credentials.py:400-411: 'API_KEY' and
\* 'DB_PASSWORD' are neither 'db_password' nor 'api_key', so the else branch
\* is taken: complexity 'medium', length 24
security_rotate_generate(p) ==
    /\ pc[p] = "call_security"
    /\ \E c \in generate_secure_credential(nextSecret, GenLength) :
        loc' = [loc EXCEPT ![p].cand = c]
    /\ nextSecret' = nextSecret + 1
    /\ Goto(p, "sec_load")
    /\ UNCHANGED <<clock, envFile, backups, metaFile, gh, calls, faults, cli, harness>>

\* credentials.py:424-426: expiration is now() + 90 days whatever the type,
\* last_rotated is a second now()
RotatedRecord(old, now1, now2) ==
    [(IF old.present THEN old ELSE BlankRec) EXCEPT
        !.expiration = now1 + Days(RotateDays),
        !.last_rotated = now2]

\* credentials.py:418-426: load the file, update the type's entry in memory
security_rotate_load(p) ==
    /\ pc[p] = "sec_load"
    /\ \E d \in {0, 1} :
        /\ clock + d <= MaxClock
        /\ clock' = clock + d
        /\ loc' = [loc EXCEPT ![p].metadata =
               [load_credential_metadata(metaFile) EXCEPT ![loc[p].ctype] =
                   RotatedRecord(load_credential_metadata(metaFile)[loc[p].ctype],
                                 clock, clock + d)]]
    /\ Goto(p, "sec_save_open")
    /\ UNCHANGED <<envFile, backups, metaFile, gh, calls, faults, nextSecret, cli, harness>>

\* save_credential_metadata, credentials.py:61: open(..., 'w') truncates
security_save_open(p) ==
    /\ pc[p] = "sec_save_open"
    /\ metaFile' = PartialMetaFile
    /\ Goto(p, "sec_save_dump")
    /\ UNCHANGED <<clock, envFile, backups, loc, gh, calls, faults, nextSecret, cli, harness>>

\* credentials.py:62: json.dump writes the document
security_save_dump(p) ==
    /\ pc[p] = "sec_save_dump"
    /\ metaFile' = MetaFileOf(loc[p].metadata)
    /\ Goto(p, "validate")
    /\ UNCHANGED <<clock, envFile, backups, loc, gh, calls, faults, nextSecret, cli, harness>>

\* credentials.py:64-66: the write fails, the error is logged and
\* rotate_credential returns the new credential all the same
security_save_fails(p) ==
    /\ pc[p] \in {"sec_save_open", "sec_save_dump"}
    /\ CanFault
    /\ faults' = faults + 1
    /\ gh' = [gh EXCEPT ![p].faulted = TRUE]
    /\ UNCHANGED metaFile
    /\ Goto(p, "validate")
    /\ UNCHANGED <<clock, envFile, backups, loc, calls, nextSecret, cli, harness>>

\* ------------------------------------------- rotate_credential, line 462 on
\* lines 465-474: a candidate is refused only when it is invalid AND the type
\* is crucial AND the score is under 70
strength_insufficient(t, validation) ==
    /\ ~validation.valid
    /\ t \in CrucialTypes
    /\ validation.score < CrucialMinScore

rotate_reject_weak(p) ==
    /\ pc[p] = "validate"
    /\ strength_insufficient(loc[p].ctype, validate_credential_strength(loc[p].cand, loc[p].ctype))
    /\ Finish(p, "rejected_weak")
    /\ UNCHANGED <<clock, envFile, backups, metaFile, gh, calls, faults, nextSecret, cli, harness>>

rotate_validated(p) ==
    /\ pc[p] = "validate"
    /\ ~strength_insufficient(loc[p].ctype, validate_credential_strength(loc[p].cand, loc[p].ctype))
    /\ Goto(p, IF PasswordLike(loc[p].ctype) THEN "breach" ELSE "uef")
    /\ UNCHANGED <<clock, envFile, backups, metaFile, loc, gh, calls, faults, nextSecret, cli, harness>>

\* check_haveibeenpwned (lines 138-167) returns an int: the COUNT of the
\* matching line, or 0 when no line matches, the status is not 200 or the
\* request raises
BreachReplies == {"unavailable", "clean", "found"}
check_haveibeenpwned(reply) == IF reply = "found" THEN BreachCount ELSE 0

\* lines 477-481
rotate_breach_check(p) ==
    /\ pc[p] = "breach"
    /\ \E reply \in BreachReplies :
        /\ gh' = [gh EXCEPT ![p].breachRuns = @ + 1,
                            ![p].breachFound = @ \/ check_haveibeenpwned(reply) > 0,
                            ![p].breachUnavailable = @ \/ reply = "unavailable"]
        /\ IF check_haveibeenpwned(reply) > 0
           THEN Finish(p, "rejected_breached")
           ELSE Goto(p, "uef") /\ UNCHANGED loc
    /\ UNCHANGED <<clock, envFile, backups, metaFile, calls, faults, nextSecret, cli, harness>>

\* ------------------------------------------------ update_environment_file
\* Every return of update_environment_file brings rotate_credential to
\* lines 486-487: {"success": True, ...}
UefReturns(p) == Goto(p, "done")
Accepted(l) == [l EXCEPT !.result = "accepted"]

\* lines 371-380: the backup path is fixed at entry; the credential is
\* validated again and an invalid one makes the function return
uef_enter(p) ==
    /\ pc[p] = "uef"
    /\ IF ~validate_credential_strength(loc[p].cand, loc[p].ctype).valid
       THEN /\ loc' = [loc EXCEPT ![p] = Accepted([@ EXCEPT !.backup_env_path = Stamp(clock)])]
            /\ UefReturns(p)
       ELSE /\ loc' = [loc EXCEPT ![p].backup_env_path = Stamp(clock)]
            /\ Goto(p, IF PasswordLike(loc[p].ctype) THEN "uef_breach" ELSE "uef_read")
    /\ UNCHANGED <<clock, envFile, backups, metaFile, gh, calls, faults, nextSecret, cli, harness>>

\* lines 383-388: a second lookup; a hit makes the function return
uef_breach_check(p) ==
    /\ pc[p] = "uef_breach"
    /\ \E reply \in BreachReplies :
        /\ gh' = [gh EXCEPT ![p].breachRuns = @ + 1,
                            ![p].breachFound = @ \/ check_haveibeenpwned(reply) > 0,
                            ![p].breachUnavailable = @ \/ reply = "unavailable"]
        /\ IF check_haveibeenpwned(reply) > 0
           THEN loc' = [loc EXCEPT ![p] = Accepted(@)] /\ UefReturns(p)
           ELSE Goto(p, "uef_read") /\ UNCHANGED loc
    /\ UNCHANGED <<clock, envFile, backups, metaFile, calls, faults, nextSecret, cli, harness>>

\* lines 392, 414-416: no environment file, log and return
uef_file_missing(p) ==
    /\ pc[p] = "uef_read"
    /\ envFile.state = "nofile"
    /\ loc' = [loc EXCEPT ![p] = Accepted(@)]
    /\ UefReturns(p)
    /\ UNCHANGED <<clock, envFile, backups, metaFile, gh, calls, faults, nextSecret, cli, harness>>

\* lines 393-394: read the whole file
uef_read(p) ==
    /\ pc[p] = "uef_read"
    /\ envFile.state = "ok"
    /\ loc' = [loc EXCEPT ![p].env_content = envFile.lines]
    /\ Goto(p, "uef_backup")
    /\ UNCHANGED <<clock, envFile, backups, metaFile, gh, calls, faults, nextSecret, cli, harness>>

\* lines 397-398: write the backup copy
uef_backup(p) ==
    /\ pc[p] = "uef_backup"
    /\ backups' = [backups EXCEPT ![loc[p].backup_env_path] = EnvFileOf(loc[p].env_content)]
    /\ Goto(p, "uef_open")
    /\ UNCHANGED <<clock, envFile, metaFile, loc, gh, calls, faults, nextSecret, cli, harness>>

\* lines 403-407: re.sub(^TYPE=.*$) replaces every line of the type and
\* nothing else; a content without such a line is returned as it is
ReplaceLine(content, t, value) ==
    [i \in DOMAIN content |-> IF content[i][1] = t THEN <<t, value>> ELSE content[i]]

\* line 410: open(main_env_path, 'w') truncates the live store
uef_open(p) ==
    /\ pc[p] = "uef_open"
    /\ envFile' = EnvFileOf(<<>>)
    /\ Goto(p, "uef_write")
    /\ UNCHANGED <<clock, backups, metaFile, loc, gh, calls, faults, nextSecret, cli, harness>>

\* lines 411-420: write the updated content and return
uef_write(p) ==
    /\ pc[p] = "uef_write"
    /\ envFile' = EnvFileOf(ReplaceLine(loc[p].env_content, loc[p].ctype, loc[p].cand.id))
    /\ gh' = [gh EXCEPT ![p].wrote = TRUE]
    /\ loc' = [loc EXCEPT ![p] = Accepted(@)]
    /\ UefReturns(p)
    /\ UNCHANGED <<clock, backups, metaFile, calls, faults, nextSecret, cli, harness>>

\* the read (393), the backup's open (397) or the live open (410) raises:
\* nothing is written, control goes to the except clause at 422
uef_io_error(p) ==
    /\ pc[p] \in {"uef_read", "uef_backup", "uef_open"}
    /\ pc[p] = "uef_read" => envFile.state = "ok"
    /\ CanFault
    /\ faults' = faults + 1
    /\ gh' = [gh EXCEPT ![p].faulted = TRUE, ![p].writeFailed = (pc[p] = "uef_open")]
    /\ Goto(p, "uef_except")
    /\ UNCHANGED <<clock, envFile, backups, metaFile, loc, calls, nextSecret, cli, harness>>

\* line 411 raises after part of the content was written
uef_write_error(p) ==
    /\ pc[p] = "uef_write"
    /\ CanFault
    /\ faults' = faults + 1
    /\ gh' = [gh EXCEPT ![p].faulted = TRUE, ![p].writeFailed = TRUE]
    /\ \E part \in ProperPrefixes(ReplaceLine(loc[p].env_content, loc[p].ctype, loc[p].cand.id)) :
        envFile' = EnvFileOf(part)
    /\ Goto(p, "uef_except")
    /\ UNCHANGED <<clock, backups, metaFile, loc, calls, nextSecret, cli, harness>>

\* lines 422-426: no backup at the path, nothing to restore
uef_except_no_backup(p) ==
    /\ pc[p] = "uef_except"
    /\ backups[loc[p].backup_env_path].state = "nofile"
    /\ loc' = [loc EXCEPT ![p] = Accepted(@)]
    /\ UefReturns(p)
    /\ UNCHANGED <<clock, envFile, backups, metaFile, gh, calls, faults, nextSecret, cli, harness>>

\* lines 426-429: read the backup
uef_restore_read(p) ==
    /\ pc[p] = "uef_except"
    /\ backups[loc[p].backup_env_path].state = "ok"
    /\ loc' = [loc EXCEPT ![p].backup_content = backups[loc[p].backup_env_path].lines]
    /\ Goto(p, "uef_restore_open")
    /\ UNCHANGED <<clock, envFile, backups, metaFile, gh, calls, faults, nextSecret, cli, harness>>

\* line 431: open(main_env_path, 'w')
uef_restore_open(p) ==
    /\ pc[p] = "uef_restore_open"
    /\ envFile' = EnvFileOf(<<>>)
    /\ Goto(p, "uef_restore_write")
    /\ UNCHANGED <<clock, backups, metaFile, loc, gh, calls, faults, nextSecret, cli, harness>>

\* a restore that writes the updated content instead of the backup
uef_restore_write_updated_content(p) ==
    /\ pc[p] = "uef_restore_write"
    /\ envFile' = EnvFileOf(ReplaceLine(loc[p].env_content, loc[p].ctype, loc[p].cand.id))
    /\ loc' = [loc EXCEPT ![p] = Accepted(@)]
    /\ UefReturns(p)
    /\ UNCHANGED <<clock, backups, metaFile, gh, calls, faults, nextSecret, cli, harness>>

\* lines 432-434
uef_restore_write(p) ==
    /\ pc[p] = "uef_restore_write"
    /\ envFile' = EnvFileOf(loc[p].backup_content)
    /\ loc' = [loc EXCEPT ![p] = Accepted(@)]
    /\ UefReturns(p)
    /\ UNCHANGED <<clock, backups, metaFile, gh, calls, faults, nextSecret, cli, harness>>

\* lines 435-436: the restore raises; the error is logged and the function
\* returns. A failed write leaves part of the backup content in the store.
uef_restore_error(p) ==
    /\ \/ /\ pc[p] \in {"uef_except", "uef_restore_open"}
          /\ pc[p] = "uef_except" => backups[loc[p].backup_env_path].state = "ok"
          /\ UNCHANGED envFile
       \/ /\ pc[p] = "uef_restore_write"
          /\ \E part \in ProperPrefixes(loc[p].backup_content) : envFile' = EnvFileOf(part)
    /\ CanFault
    /\ faults' = faults + 1
    /\ gh' = [gh EXCEPT ![p].faulted = TRUE, ![p].restoreFailed = TRUE,
                        ![p].unrestored = IF gh[p].writeFailed
                                          THEN @ \cup {loc[p].ctype} ELSE @]
    /\ loc' = [loc EXCEPT ![p] = Accepted(@)]
    /\ UefReturns(p)
    /\ UNCHANGED <<clock, backups, metaFile, calls, nextSecret, cli, harness>>

\* rotate_credential has returned its result; the caller is idle again
rotate_credential_end(p) ==
    /\ pc[p] = "done"
    /\ loc' = [loc EXCEPT ![p] = InitLoc]
    /\ gh' = [gh EXCEPT ![p] = [InitGh EXCEPT !.unrestored = gh[p].unrestored]]
    /\ Goto(p, "idle")
    /\ UNCHANGED <<clock, envFile, backups, metaFile, calls, faults, nextSecret, harness>>

\* a caller other than main() takes the result
rotate_credential_return(p) == rotate_credential_end(p) /\ UNCHANGED cli

\* steps of rotate_credential past the second-factor gate in which every
\* file operation succeeds
RotateBody(p) ==
    \/ two_factor_not_required(p)
    \/ security_rotate_raises(p)
    \/ security_rotate_generate(p)
    \/ security_rotate_load(p)
    \/ security_save_open(p)
    \/ security_save_dump(p)
    \/ rotate_reject_weak(p)
    \/ rotate_validated(p)
    \/ rotate_breach_check(p)
    \/ uef_enter(p)
    \/ uef_breach_check(p)
    \/ uef_file_missing(p)
    \/ uef_read(p)
    \/ uef_backup(p)
    \/ uef_open(p)
    \/ uef_write(p)

RotateSteps(p) ==
    \/ RotateBody(p)
    \/ rotate_credential_return(p)

\* steps in which a file operation raises
FaultSteps(p) ==
    \/ security_save_fails(p)
    \/ uef_io_error(p)
    \/ uef_write_error(p)
    \/ uef_except_no_backup(p)
    \/ uef_restore_read(p)
    \/ uef_restore_open(p)
    \/ uef_restore_write(p)
    \/ uef_restore_error(p)

\* the steps of update_environment_file in which every file operation succeeds
UefSteps(p) ==
    \/ uef_enter(p)
    \/ uef_breach_check(p)
    \/ uef_file_missing(p)
    \/ uef_read(p)
    \/ uef_backup(p)
    \/ uef_open(p)
    \/ uef_write(p)

\* the steps of update_environment_file around a file operation that raises
UefFaultSteps(p) ==
    \/ uef_io_error(p)
    \/ uef_write_error(p)
    \/ uef_except_no_backup(p)
    \/ uef_restore_read(p)
    \/ uef_restore_open(p)
    \/ uef_restore_write(p)
    \/ uef_restore_error(p)

\* update_environment_file({t: value}) called on its own (line 364), the time
\* having advanced or not since the last call
apply_call(p) ==
    /\ pc[p] = "idle"
    /\ calls[p] < MaxApplies
    /\ \E t \in Types, c \in generate_secure_credential(nextSecret, GenLength), d \in {0, 1} :
          /\ clock + d <= MaxClock
          /\ clock' = clock + d
          /\ loc' = [loc EXCEPT ![p] = [InitLoc EXCEPT !.ctype = t, !.cand = c]]
    /\ gh' = [gh EXCEPT ![p] = [InitGh EXCEPT !.snapEnv = envFile, !.snapMeta = metaFile,
                                              !.unrestored = gh[p].unrestored]]
    /\ calls' = [calls EXCEPT ![p] = @ + 1]
    /\ nextSecret' = nextSecret + 1
    /\ Goto(p, "uef")
    /\ UNCHANGED <<envFile, backups, metaFile, faults, cli, harness>>

\* one caller applying updates to the store one after the other, with I/O
\* failures
NextApply ==
    \/ apply_call("c1")
    \/ UefSteps("c1")
    \/ UefFaultSteps("c1")
    \/ rotate_credential_return("c1")

SpecApply == Init /\ [][NextApply]_vars

\* a later run of the CLI with --auto-rotate reaches line 568 again
scheduled_auto_rotate(p) ==
    /\ calls[p] < MaxRuns
    /\ \E t \in Types : rotate_credential_begin(p, t, TRUE)
    /\ UNCHANGED cli

\* one caller, automatic rotations run after run, with I/O failures
NextRuns ==
    \/ scheduled_auto_rotate("c1")
    \/ RotateSteps("c1")
    \/ FaultSteps("c1")

SpecRuns == Init /\ [][NextRuns]_vars

\* one caller, forced and automatic rotations, with I/O failures
Next ==
    \/ init_credential_metadata
    \/ monolith_init_credential_metadata
    \/ force_rotate("c1")
    \/ auto_rotate("c1")
    \/ two_factor_verified("c1")
    \/ two_factor_denied("c1")
    \/ RotateSteps("c1")
    \/ FaultSteps("c1")

Spec == Init /\ [][Next]_vars

\* the same, where a rotation that can take a step eventually takes one:
\* rotate_credential is straight-line code run by one thread, its only waits
\* are the second-factor hook and an HTTP request with a timeout (line 156)
SpecFair ==
    Spec /\ WF_vars(two_factor_verified("c1") \/ two_factor_denied("c1")
                     \/ RotateBody("c1") \/ FaultSteps("c1"))

\* one caller, forced and automatic rotations, no I/O failure
NextNoFault ==
    \/ init_credential_metadata
    \/ monolith_init_credential_metadata
    \/ force_rotate("c1")
    \/ auto_rotate("c1")
    \/ two_factor_verified("c1")
    \/ two_factor_denied("c1")
    \/ RotateSteps("c1")

SpecNoFault == Init /\ [][NextNoFault]_vars

\* two concurrent callers running automatic rotations, no I/O failure
NextConc ==
    \E p \in Procs :
        \/ auto_rotate(p)
        \/ RotateSteps(p)

SpecConc == Init /\ [][NextConc]_vars

\* ------------------------------------------------------------------ main()
\* thresholds of the expiration check and of main()
ExpiringSoonDays == 7      \* credentials.py:378
SeverityHighDays == 3      \* credentials.py:384
WarningHorizonDays == 90   \* checkcredentials.py:515
CriticalDays == 1          \* checkcredentials.py:298
HighDays == 7              \* checkcredentials.py:300
MediumDays == 30           \* checkcredentials.py:302
AutoRotateDays == 7        \* checkcredentials.py:560

\* the order in which metadata.items() yields the keys of the file
MetaKeyOrder == <<"API_KEY", "DB_PASSWORD", "MAIL_API_KEY", "LOGGING_API_KEY",
                  "SECRET_TOKEN", "api_key", "db_password", "mail_api_key",
                  "logging_api_key", UnregisteredType>>

\* (expiration_date - now).days: timedelta.days is the floor of the quotient
days_remaining(expiration, now) == (expiration - now) \div SecondsPerDay

\* credentials.py:370-385: the report appended for one entry; an expired
\* entry carries 'days_past' and no 'days_remaining'
ExpirationReport(k, expiration, now) ==
    IF days_remaining(expiration, now) <= 0
    THEN [credential_type |-> k, status |-> "expired", has_days_remaining |-> FALSE,
          days_remaining |-> 0, days_past |-> 0 - days_remaining(expiration, now),
          severity |-> "critical"]
    ELSE [credential_type |-> k, status |-> "expiring_soon", has_days_remaining |-> TRUE,
          days_remaining |-> days_remaining(expiration, now), days_past |-> 0,
          severity |-> IF days_remaining(expiration, now) <= SeverityHighDays
                       THEN "high" ELSE "medium"]

\* security.check_credential_expiration (credentials.py:353-387): entries
\* without 'expiration' and entries with more than 7 days left are skipped
check_credential_expiration(metadata, now) ==
    LET Listed(k) == /\ metadata[k].present
                     /\ metadata[k].expiration # Absent
                     /\ days_remaining(metadata[k].expiration, now) <= ExpiringSoonDays
        ks == SelectSeq(MetaKeyOrder, Listed)
    IN  [i \in 1..Len(ks) |-> ExpirationReport(ks[i], metadata[ks[i]].expiration, now)]

\* main(), lines 513-516: result.get('days_remaining', float('inf')) <= 90
FilterWarnings(expiration_results) ==
    LET NeedsAttention(r) == r.has_days_remaining /\ r.days_remaining <= WarningHorizonDays
    IN  SelectSeq(expiration_results, NeedsAttention)

\* generate_report, lines 297-305: the list a warning is appended to
ReportBucket(d) ==
    IF d <= CriticalDays THEN "critical"
    ELSE IF d <= HighDays THEN "high"
    ELSE IF d <= MediumDays THEN "medium"
    ELSE "low"

\* main(), lines 558-561
CredentialsToRotate(warnings) ==
    LET Soon(w) == w.days_remaining <= AutoRotateDays
        ws == SelectSeq(warnings, Soon)
    IN  [i \in 1..Len(ws) |-> ws[i].credential_type]

\* days left, at the start of main(), of the entries the metadata file holds
ScanDays == {-1, 0, 1, 3, 7, 8}
OtherDays == {5, 40}

\* an entry as rotate_credential left it (90 - d) days before main() starts
AgedRecord(d) == RotatedRecord(NoRec, Days(d) - Days(RotateDays), Days(d) - Days(RotateDays))

\* command lines: --force TYPE, --auto-rotate, --report
CliArgs == { [force |-> "none", auto_rotate |-> FALSE, report |-> FALSE],
             [force |-> "none", auto_rotate |-> FALSE, report |-> TRUE],
             [force |-> "none", auto_rotate |-> TRUE, report |-> FALSE],
             [force |-> "DB_PASSWORD", auto_rotate |-> FALSE, report |-> FALSE],
             [force |-> "MAIL_API_KEY", auto_rotate |-> TRUE, report |-> FALSE],
             [force |-> UnregisteredType, auto_rotate |-> FALSE, report |-> TRUE] }

InitCli ==
    /\ clock = 0
    /\ envFile \in {EnvFileOf(FullStore), NoEnvFile}
    /\ backups = [s \in Stamps |-> NoEnvFile]
    /\ \E a \in ScanDays, b \in OtherDays :
          metaFile = MetaFileOf([k \in MetaKeys |->
                        IF k = "API_KEY" THEN AgedRecord(a)
                        ELSE IF k = "DB_PASSWORD" THEN AgedRecord(b)
                        ELSE NoRec])
    /\ pc = [p \in Procs |-> "idle"]
    /\ loc = [p \in Procs |-> InitLoc]
    /\ gh = [p \in Procs |-> InitGh]
    /\ calls = [p \in Procs |-> 0]
    /\ faults = 0
    /\ nextSecret = OriginalSecret + 1
    /\ \E args \in CliArgs :
          cli = [NoCli EXCEPT !.pc = "check", !.force = args.force,
                              !.auto_rotate = args.auto_rotate, !.report = args.report]
    /\ text = NoText
    /\ lookup = NoLookup
    /\ audit = NoAudit

RotationVars == <<clock, envFile, backups, metaFile, pc, loc, gh, calls, faults, nextSecret>>

\* lines 510-516: the expiration check and the filter of its results
main_check_expiration ==
    /\ cli.pc = "check"
    /\ cli' = [cli EXCEPT
          !.now = clock,
          !.expiration_results =
              check_credential_expiration(load_credential_metadata(metaFile), clock),
          !.warnings = FilterWarnings(
              check_credential_expiration(load_credential_metadata(metaFile), clock)),
          !.pc = "report"]
    /\ UNCHANGED <<RotationVars, harness>>

\* line 519: neither --report nor a warning
main_no_report ==
    /\ cli.pc = "report"
    /\ ~(cli.report \/ cli.warnings # <<>>)
    /\ cli' = [cli EXCEPT !.pc = "force"]
    /\ UNCHANGED <<RotationVars, harness>>

\* lines 520-521: the report is generated and saved
main_report_saved ==
    /\ cli.pc = "report"
    /\ cli.report \/ cli.warnings # <<>>
    /\ cli' = [cli EXCEPT !.report_saved = TRUE, !.pc = "force"]
    /\ UNCHANGED <<RotationVars, harness>>

\* generate_report, lines 312-313: a warning has no 'last_rotation' key, the
\* KeyError reaches main()'s except clause (622-625), which exits with 1
main_report_raises ==
    /\ cli.pc = "report"
    /\ cli.warnings # <<>>
    /\ cli' = [cli EXCEPT !.exit_code = 1, !.pc = "exit"]
    /\ UNCHANGED <<RotationVars, harness>>

\* line 546: no --force
main_no_force ==
    /\ cli.pc = "force"
    /\ cli.force = "none"
    /\ cli' = [cli EXCEPT !.pc = "auto"]
    /\ UNCHANGED <<RotationVars, harness>>

\* line 548: result = rotate_credential(args.force)
main_force_rotate ==
    /\ cli.pc = "force"
    /\ cli.force # "none"
    /\ rotate_credential_begin("c1", cli.force, FALSE)
    /\ cli' = [cli EXCEPT !.requested = @ + 1, !.pc = "force_wait"]

\* lines 550-554: a failed forced rotation ends the program with sys.exit(1)
main_force_result ==
    /\ cli.pc = "force_wait"
    /\ cli' = [cli EXCEPT
          !.accepted = IF loc["c1"].result = "accepted" THEN @ + 1 ELSE @,
          !.exit_code = IF loc["c1"].result = "accepted" THEN @ ELSE 1,
          !.pc = IF loc["c1"].result = "accepted" THEN "auto" ELSE "exit"]
    /\ rotate_credential_end("c1")

\* line 557 is false, or line 563 finds nothing to rotate; the rest of
\* main() prints and returns
main_no_auto ==
    /\ cli.pc = "auto"
    /\ ~(cli.auto_rotate /\ cli.warnings # <<>>) \/ CredentialsToRotate(cli.warnings) = <<>>
    /\ cli' = [cli EXCEPT !.pc = "exit"]
    /\ UNCHANGED <<RotationVars, harness>>

\* lines 557-564
main_auto_select ==
    /\ cli.pc = "auto"
    /\ cli.auto_rotate /\ cli.warnings # <<>>
    /\ CredentialsToRotate(cli.warnings) # <<>>
    /\ cli' = [cli EXCEPT !.credentials_to_rotate = CredentialsToRotate(cli.warnings),
                          !.pc = "auto_loop"]
    /\ UNCHANGED <<RotationVars, harness>>

\* line 568: result = rotate_credential(cred_type, skip_verification=True)
main_auto_rotate ==
    /\ cli.pc = "auto_loop"
    /\ cli.credentials_to_rotate # <<>>
    /\ rotate_credential_begin("c1", Head(cli.credentials_to_rotate), TRUE)
    /\ cli' = [cli EXCEPT !.requested = @ + 1, !.pc = "auto_wait"]

\* lines 570-573: the result is printed, the loop goes on
main_auto_result ==
    /\ cli.pc = "auto_wait"
    /\ cli' = [cli EXCEPT
          !.accepted = IF loc["c1"].result = "accepted" THEN @ + 1 ELSE @,
          !.credentials_to_rotate = Tail(@),
          !.pc = "auto_loop"]
    /\ rotate_credential_end("c1")

\* the loop of line 566 is over; the rest of main() prints and returns
main_auto_done ==
    /\ cli.pc = "auto_loop"
    /\ cli.credentials_to_rotate = <<>>
    /\ cli' = [cli EXCEPT !.pc = "exit"]
    /\ UNCHANGED <<RotationVars, harness>>

\* one run of main(): one caller, no I/O failure
NextCli ==
    \/ main_check_expiration
    \/ main_no_report
    \/ main_report_saved
    \/ main_report_raises
    \/ main_no_force
    \/ main_force_rotate
    \/ main_force_result
    \/ main_no_auto
    \/ main_auto_select
    \/ main_auto_rotate
    \/ main_auto_result
    \/ main_auto_done
    \/ two_factor_verified("c1")
    \/ two_factor_denied("c1")
    \/ RotateBody("c1")

SpecCli == InitCli /\ [][NextCli]_vars

\* ----------------------------------------- validate_credential_strength
\* the rotation engine at rest, for the components checked on their own
IdleEngine ==
    /\ clock = 0
    /\ envFile = EnvFileOf(FullStore)
    /\ backups = [st \in Stamps |-> NoEnvFile]
    /\ metaFile = NoMetaFile
    /\ pc = [p \in Procs |-> "idle"]
    /\ loc = [p \in Procs |-> InitLoc]
    /\ gh = [p \in Procs |-> InitGh]
    /\ calls = [p \in Procs |-> 0]
    /\ faults = 0
    /\ nextSecret = OriginalSecret + 1
    /\ cli = NoCli

InitValidate ==
    /\ IdleEngine
    /\ \E credential \in ExampleTexts, t \in ValidatedTypes :
          text = [NoText EXCEPT !.pc = "input", !.credential = credential,
                                !.credential_type = t]
    /\ lookup = NoLookup
    /\ audit = NoAudit

\* the caller's text grows by one character
text_append ==
    /\ text.pc = "input"
    /\ text.appended < MaxAppend
    /\ \E ch \in AppendChars :
          text' = [text EXCEPT !.credential = Append(@, ch), !.appended = @ + 1]
    /\ UNCHANGED <<RotationVars, cli, lookup, audit>>

\* validate_credential_strength(credential, credential_type)
text_validate ==
    /\ text.pc = "input"
    /\ text' = [text EXCEPT
          !.result = validate_credential_strength(Features(text.credential),
                                                  text.credential_type),
          !.issues = Issues(Features(text.credential), text.credential_type),
          !.pc = "validated"]
    /\ UNCHANGED <<RotationVars, cli, lookup, audit>>

NextValidate ==
    \/ text_append
    \/ text_validate

SpecValidate == InitValidate /\ [][NextValidate]_vars

\* ------------------------------ two processes sharing the metadata file
\* a process either calls security.initialize() (security/__init__.py:94-107,
\* called by scripts/cross_platform.py:251), which runs
\* init_credential_metadata, and then scans, or it only scans
InitShared ==
    /\ clock = 0
    /\ envFile = EnvFileOf(FullStore)
    /\ backups = [st \in Stamps |-> NoEnvFile]
    /\ \E a \in ScanDays, b \in OtherDays :
          /\ metaFile = MetaFileOf([k \in MetaKeys |->
                           IF k = "API_KEY" THEN AgedRecord(a)
                           ELSE IF k = "DB_PASSWORD" THEN AgedRecord(b)
                           ELSE NoRec])
          /\ gh = [p \in Procs |-> [InitGh EXCEPT !.snapMeta = metaFile]]
    /\ pc \in [Procs -> {"initialize", "scan"}]
    /\ loc = [p \in Procs |-> InitLoc]
    /\ calls = [p \in Procs |-> 0]
    /\ faults = 0
    /\ nextSecret = OriginalSecret + 1
    /\ cli = NoCli
    /\ text = NoText
    /\ lookup = NoLookup
    /\ audit = NoAudit

\* credentials.py:434-448: load, add the missing records in memory
initialize_load(p) ==
    /\ pc[p] = "initialize"
    /\ loc' = [loc EXCEPT ![p].metadata =
                  initial_metadata(load_credential_metadata(metaFile), clock, clock)]
    /\ Goto(p, "initialize_save_open")
    /\ UNCHANGED <<clock, envFile, backups, metaFile, gh, calls, faults, nextSecret,
                   cli, harness>>

\* credentials.py:450 and 61: open(metadata_path, 'w') truncates the file
initialize_save_open(p) ==
    /\ pc[p] = "initialize_save_open"
    /\ metaFile' = PartialMetaFile
    /\ Goto(p, "initialize_save_dump")
    /\ UNCHANGED <<clock, envFile, backups, loc, gh, calls, faults, nextSecret,
                   cli, harness>>

\* credentials.py:62: json.dump writes the document
initialize_save_dump(p) ==
    /\ pc[p] = "initialize_save_dump"
    /\ metaFile' = MetaFileOf(loc[p].metadata)
    /\ Goto(p, "scan")
    /\ UNCHANGED <<clock, envFile, backups, loc, gh, calls, faults, nextSecret,
                   cli, harness>>

\* check_credential_expiration, credentials.py:360: the scan loads the file
scan_load(p) ==
    /\ pc[p] = "scan"
    /\ loc' = [loc EXCEPT ![p].metadata = load_credential_metadata(metaFile)]
    /\ Goto(p, "scanned")
    /\ UNCHANGED <<clock, envFile, backups, metaFile, gh, calls, faults, nextSecret,
                   cli, harness>>

NextShared ==
    \E p \in Procs :
        \/ initialize_load(p)
        \/ initialize_save_open(p)
        \/ initialize_save_dump(p)
        \/ scan_load(p)

SpecShared == InitShared /\ [][NextShared]_vars

\* ------------------------------------------- check_credential_expiration
\* CREDENTIAL_TYPES[t]['warning_days'], 14 for any other key (security.py:1371)
warning_days(t) ==
    CASE t = "DB_PASSWORD" -> 10
      [] t = "SECRET_TOKEN" -> 7
      [] OTHER -> 14

\* security.py:1363-1389: the warnings for the entries that carry
\* 'expiration_date'
monolith_check_credential_expiration(metadata, now) ==
    LET Listed(k) == /\ metadata[k].present
                     /\ metadata[k].expiration_date # Absent
                     /\ days_remaining(metadata[k].expiration_date, now) <= warning_days(k)
        ks == SelectSeq(MetaKeyOrder, Listed)
        left(k) == days_remaining(metadata[k].expiration_date, now)
    IN  [i \in 1..Len(ks) |->
            IF left(ks[i]) <= 0
            THEN [type |-> ks[i], status |-> "expired", days |-> 0 - left(ks[i])]
            ELSE [type |-> ks[i], status |-> "warning", days |-> left(ks[i])]]

\* a scan that reloads the metadata on every call
ensure_metadata_loaded_by_reloading(memory, file) == load_credential_metadata(file)

\* security.py:1359-1360: the module's metadata is loaded only if it is empty
ensure_metadata_loaded(memory, file) ==
    IF memory = EmptyMeta THEN load_credential_metadata(file) ELSE memory

\* an entry security.py wrote (90 - d) days before the scan
MonolithAgedRecord(d) ==
    [BlankRec EXCEPT !.created_date = Days(d) - Days(rotation_interval_days("API_KEY")),
                     !.expiration_date = Days(d),
                     !.last_rotated = Days(d) - Days(rotation_interval_days("API_KEY")),
                     !.rotations = 0,
                     !.masked_value = monolith_mask_credential(ConfiguredSecret)]
MonolithScanDays == {-1, 0, 1, 14, 15}

\* c1 is a process that imports security.py, c2 one that uses the package
InitScan ==
    /\ clock = 0
    /\ envFile = EnvFileOf(FullStore)
    /\ backups = [st \in Stamps |-> NoEnvFile]
    /\ \/ metaFile = NoMetaFile
       \/ \E a \in MonolithScanDays, b \in ScanDays :
             metaFile = MetaFileOf([k \in MetaKeys |->
                           IF k = "API_KEY" THEN MonolithAgedRecord(a)
                           ELSE IF k = "DB_PASSWORD" THEN AgedRecord(b)
                           ELSE NoRec])
    /\ pc = [p \in Procs |-> IF p = "c1" THEN "unloaded" ELSE "package"]
    /\ loc = [p \in Procs |-> InitLoc]
    /\ gh = [p \in Procs |-> InitGh]
    /\ calls = [p \in Procs |-> 0]
    /\ faults = 0
    /\ nextSecret = OriginalSecret + 1
    /\ cli = NoCli
    /\ text = NoText
    /\ lookup = NoLookup
    /\ audit = NoAudit

\* security.py:149, at import: credential_metadata = load_credential_metadata()
monolith_module_load(p) ==
    /\ pc[p] = "unloaded"
    /\ loc' = [loc EXCEPT ![p].credential_metadata = load_credential_metadata(metaFile)]
    /\ Goto(p, "loaded")
    /\ UNCHANGED <<clock, envFile, backups, metaFile, gh, calls, faults, nextSecret,
                   cli, harness>>

\* security.py:1485, at import: init_credential_metadata() reloads the global,
\* completes it and saves it if it added a record
monolith_module_init(p) ==
    /\ pc[p] = "loaded"
    /\ LET completed == monolith_initial_metadata(load_credential_metadata(metaFile),
                                                  clock, ConfiguredSecret)
       IN  /\ loc' = [loc EXCEPT ![p].credential_metadata = completed]
           /\ metaFile' = IF completed # load_credential_metadata(metaFile)
                          THEN MetaFileOf(completed) ELSE metaFile
    /\ Goto(p, "ready")
    /\ UNCHANGED <<clock, envFile, backups, gh, calls, faults, nextSecret, cli, harness>>

\* check_credential_expiration() of security.py (lines 1347-1391)
monolith_scan(p) ==
    /\ pc[p] = "ready"
    /\ calls[p] < MaxScans
    /\ \E d \in {0, 1} :
        /\ clock + d <= MaxClock
        /\ clock' = clock + d
        /\ loc' = [loc EXCEPT
              ![p].credential_metadata =
                  ensure_metadata_loaded(loc[p].credential_metadata, metaFile),
              ![p].warnings = monolith_check_credential_expiration(
                  ensure_metadata_loaded(loc[p].credential_metadata, metaFile), clock + d)]
    /\ calls' = [calls EXCEPT ![p] = @ + 1]
    /\ UNCHANGED <<envFile, backups, metaFile, pc, gh, faults, nextSecret, cli, harness>>

\* check_credential_expiration() of the package (credentials.py:353-387)
package_scan(p) ==
    /\ pc[p] = "package"
    /\ calls[p] < MaxScans
    /\ \E d \in {0, 1} :
        /\ clock + d <= MaxClock
        /\ clock' = clock + d
        /\ loc' = [loc EXCEPT
              ![p].metadata = load_credential_metadata(metaFile),
              ![p].warnings = check_credential_expiration(
                                  load_credential_metadata(metaFile), clock + d)]
    /\ calls' = [calls EXCEPT ![p] = @ + 1]
    /\ UNCHANGED <<envFile, backups, metaFile, pc, gh, faults, nextSecret, cli, harness>>

\* the package's init_credential_metadata, run by the other process
package_init(p) ==
    /\ pc[p] = "package"
    /\ metaFile' = MetaFileOf(initial_metadata(load_credential_metadata(metaFile),
                                               clock, clock))
    /\ metaFile' # metaFile
    /\ UNCHANGED <<clock, envFile, backups, pc, loc, gh, calls, faults, nextSecret,
                   cli, harness>>

\* the metadata file is removed by an operator
metadata_file_removed ==
    /\ metaFile.state = "ok"
    /\ \A p \in Procs : calls[p] = 0
    /\ metaFile' = NoMetaFile
    /\ UNCHANGED <<clock, envFile, backups, pc, loc, gh, calls, faults, nextSecret,
                   cli, harness>>

NextScan ==
    \/ monolith_module_load("c1")
    \/ monolith_module_init("c1")
    \/ monolith_scan("c1")
    \/ package_scan("c2")
    \/ package_init("c2")
    \/ metadata_file_removed

SpecScan == InitScan /\ [][NextScan]_vars

\* ------------------------------------------------- mask_credential, calls
MaskTexts == {<<>>, <<"a">>, <<"a", "b">>, <<"*", "*", "*">>,
              <<"*", "*", "*", "*", "*">>,
              <<"a", "b", "c", ".", ".">>,
              <<"a", "b", "c", "d", "e", "f", "g">>,
              <<"a", "b", "c", "d", "*", "e", "f">>,
              <<"a", "b", "c", "d", "e", "f", "g", "1", "2", "3">>}
MaskChars == {"*", ".", "g", "h"}

InitMask ==
    /\ IdleEngine
    /\ \E credential \in MaskTexts :
          text = [NoText EXCEPT !.pc = "secret", !.credential = credential]
    /\ lookup = NoLookup
    /\ audit = NoAudit

\* the secret in the environment is one character longer
mask_append ==
    /\ text.pc = "secret"
    /\ text.appended < MaxAppend
    /\ \E ch \in MaskChars :
          text' = [text EXCEPT !.credential = Append(@, ch), !.appended = @ + 1]
    /\ UNCHANGED <<RotationVars, cli, lookup, audit>>

\* mask_credential(credential), of the package and of security.py
mask_call ==
    /\ text.pc = "secret"
    /\ text' = [text EXCEPT !.masked = mask_credential(text.credential),
                            !.monolith_masked = monolith_mask_credential(text.credential),
                            !.pc = "masked"]
    /\ UNCHANGED <<RotationVars, cli, lookup, audit>>

\* init_credential_metadata of security.py with this secret configured
mask_init_metadata ==
    /\ text.pc = "masked"
    /\ \E k \in CREDENTIAL_TYPES : load_credential_metadata(metaFile)[k] = NoRec
    /\ metaFile' = MetaFileOf(monolith_initial_metadata(
                        load_credential_metadata(metaFile), clock, text.credential))
    /\ text' = [text EXCEPT !.pc = "stored"]
    /\ UNCHANGED <<clock, envFile, backups, pc, loc, gh, calls, faults, nextSecret,
                   cli, lookup, audit>>

NextMask ==
    \/ mask_append
    \/ mask_call
    \/ mask_init_metadata

SpecMask == InitMask /\ [][NextMask]_vars

\* ---------------------------------------- generate_secure_credential, calls
\* utils.py:68-76: the alphabet of a complexity level; the grave accent, the
\* two quotes and the backslash are written by name
Alphabet(complexity) ==
    LET alnum == Range(LowerSeq) \cup Range(UpperSeq) \cup Range(DigitSeq)
    IN  IF complexity = "low" THEN alnum
        ELSE IF complexity = "medium"
             THEN alnum \cup {"!", "@", "#", "$", "%", "^", "&", "*"}
             ELSE alnum \cup {"!", "@", "#", "$", "%", "^", "&", "*", "(", ")", "-", "_",
                              "=", "+", "[", "]", "{", "}", "|", ";", ":", ",", ".",
                              "<", ">", "?", "/", "~", "grave", "dquote", "squote",
                              "backslash"}
\* secrets.token_urlsafe: base64 alphabet with "-" and "_"
UrlSafeAlphabet == Range(LowerSeq) \cup Range(UpperSeq) \cup Range(DigitSeq) \cup {"-", "_"}
\* secrets.token_hex: lower-case hexadecimal digits
HexAlphabet == Range(DigitSeq) \cup {"a", "b", "c", "d", "e", "f"}
\* the characters a draw is followed with: one of each kind
GenChars == {"a", "Z", "7", "!", "-", "~"}
GenLengths == {0, 1, 3}
GenComplexities == {"low", "medium", "high"}

\* CREDENTIAL_TYPES[t]['length'] and ['complexity'] (security.py:70-106)
policy_length(t) ==
    CASE t = "DB_PASSWORD" -> 24
      [] t = "SECRET_TOKEN" -> 48
      [] OTHER -> 32
policy_complexity(t) == IF t = "SECRET_TOKEN" THEN "very_high" ELSE "high"

\* credentials.py:400-409: the length and complexity rotate_credential asks for
rotation_request(credential_type) ==
    CASE credential_type = "db_password" -> [complexity |-> "high", length |-> 16]
      [] credential_type = "api_key" -> [complexity |-> "medium", length |-> 32]
      [] OTHER -> [complexity |-> "medium", length |-> GenLength]

\* the number of characters of secrets.token_urlsafe(nbytes): base64 of nbytes
\* bytes without the padding
token_urlsafe_length(nbytes) == (4 * nbytes + 2) \div 3
\* the number of characters of secrets.token_hex(nbytes)
token_hex_length(nbytes) == 2 * nbytes

InitGen ==
    /\ IdleEngine
    /\ text = [NoText EXCEPT !.pc = "gen_idle"]
    /\ lookup = NoLookup
    /\ audit = NoAudit

\* a caller runs generate_secure_credential(length, complexity)
gen_call ==
    /\ text.pc = "gen_idle"
    /\ \E length \in GenLengths, complexity \in GenComplexities :
          text' = [text EXCEPT !.pc = "gen_loop",
                      !.gen = [NoGen EXCEPT !.length = length, !.complexity = complexity,
                                            !.by = "call"]]
    /\ UNCHANGED <<RotationVars, cli, lookup, audit>>

\* rotate_credential of the package reaches line 411 for a type
gen_rotate ==
    /\ text.pc = "gen_idle"
    /\ \E t \in Types \cup {"db_password", "api_key"} :
          text' = [text EXCEPT !.pc = "gen_loop",
                      !.gen = [NoGen EXCEPT !.length = rotation_request(t).length,
                                            !.complexity = rotation_request(t).complexity,
                                            !.credential_type = t,
                                            !.by = "rotate_credential"]]
    /\ UNCHANGED <<RotationVars, cli, lookup, audit>>

\* utils.py:79, one round of the loop: secrets.choice(alphabet)
gen_choice ==
    /\ text.pc = "gen_loop"
    /\ text.gen.emitted < text.gen.length
    /\ \E ch \in Alphabet(text.gen.complexity) \cap GenChars :
          text' = [text EXCEPT !.gen.emitted = @ + 1, !.gen.used = @ \cup {ch}]
    /\ UNCHANGED <<RotationVars, cli, lookup, audit>>

\* utils.py:79: range(length) is exhausted, the joined text is returned
gen_return ==
    /\ text.pc = "gen_loop"
    /\ text.gen.emitted >= text.gen.length
    /\ text' = [text EXCEPT !.pc = "gen_done"]
    /\ UNCHANGED <<RotationVars, cli, lookup, audit>>

\* rotate_credential of security.py, lines 1404-1413: token_urlsafe(length)
\* for complexity 'high', token_hex(length // 2) otherwise
gen_monolith_rotate ==
    /\ text.pc = "gen_idle"
    /\ \E t \in CREDENTIAL_TYPES :
         LET high == policy_complexity(t) = "high"
             alphabet == IF high THEN UrlSafeAlphabet ELSE HexAlphabet
         IN \E used \in (SUBSET (alphabet \cap GenChars)) \ {{}} :
              text' = [text EXCEPT !.pc = "gen_done",
                  !.gen = [length |-> policy_length(t),
                           complexity |-> policy_complexity(t),
                           credential_type |-> t,
                           emitted |-> IF high THEN token_urlsafe_length(policy_length(t))
                                       ELSE token_hex_length(policy_length(t) \div 2),
                           used |-> used,
                           by |-> "monolith rotate_credential"]]
    /\ UNCHANGED <<RotationVars, cli, lookup, audit>>

\* the caller takes the text and is ready for another call
gen_again ==
    /\ text.pc = "gen_done"
    /\ text' = [NoText EXCEPT !.pc = "gen_idle"]
    /\ UNCHANGED <<RotationVars, cli, lookup, audit>>

NextGen ==
    \/ gen_call
    \/ gen_rotate
    \/ gen_choice
    \/ gen_return
    \/ gen_monolith_rotate
    \/ gen_again

SpecGen == InitGen /\ [][NextGen]_vars

\* ---------------------------------------------- check_haveibeenpwned, calls
InitBreach ==
    /\ IdleEngine
    /\ text = NoText
    /\ lookup = [NoLookup EXCEPT !.pc = "idle"]
    /\ audit = NoAudit

\* what the caller of check_haveibeenpwned gets, with what happened
LookupReturns(how, completed, count) ==
    lookup' = [lookup EXCEPT
        !.pc = "idle",
        !.log = Append(@, [password |-> lookup.password, request |-> lookup.request,
                           how |-> how, completed |-> completed,
                           returned |-> count])]

\* lines 150-152: the digest of the password
lookup_hash ==
    /\ lookup.pc = "idle"
    /\ Len(lookup.log) < MaxLookups
    /\ \E password \in Passwords :
          lookup' = [lookup EXCEPT !.pc = "request", !.password = password,
                         !.password_hash = sha1_hexdigest_upper(password)]
    /\ UNCHANGED <<RotationVars, cli, text, audit>>

\* line 156: the request leaves the process
lookup_send ==
    /\ lookup.pc = "request"
    /\ lookup' = [lookup EXCEPT !.pc = "wait",
                      !.request = RangeRequest(lookup.password_hash),
                      !.sent = Append(@, RangeRequest(lookup.password_hash))]
    /\ UNCHANGED <<RotationVars, cli, text, audit>>

\* lines 158-163, 167: status 200, the lines are searched
lookup_reply_ok ==
    /\ lookup.pc = "wait"
    /\ \E lines \in RangeTexts :
          LookupReturns("status 200", TRUE, CountInLines(lines, hash_suffix(lookup.password_hash)))
    /\ UNCHANGED <<RotationVars, cli, text, audit>>

\* lines 158, 167: another status, the function returns 0
lookup_reply_not_ok ==
    /\ lookup.pc = "wait"
    /\ LookupReturns("other status", FALSE, 0)
    /\ UNCHANGED <<RotationVars, cli, text, audit>>

\* lines 164-167: requests.get raises (network error, timeout); the
\* exception is logged and the function returns 0
lookup_raises ==
    /\ lookup.pc = "wait"
    /\ LookupReturns("raised", FALSE, 0)
    /\ UNCHANGED <<RotationVars, cli, text, audit>>

NextBreach ==
    \/ lookup_hash
    \/ lookup_send
    \/ lookup_reply_ok
    \/ lookup_reply_not_ok
    \/ lookup_raises

SpecBreach == InitBreach /\ [][NextBreach]_vars

\* ------------------------------------------------------ audit_log, calls
AuditVars == <<envFile, backups, metaFile, pc, loc, gh, calls, faults, nextSecret>>

InitAudit ==
    /\ IdleEngine
    /\ text = NoText
    /\ lookup = NoLookup
    /\ audit = [NoAudit EXCEPT !.pc = "idle"]

\* the wrapper is over: the caller has its outcome, the call is logged
AuditReturns(invoked, outcome, files) ==
    audit' = [audit EXCEPT
        !.pc = "idle",
        !.files = files,
        !.pending = NoOutcome,
        !.log = Append(@, [call |-> audit.call, invoked |-> invoked,
                           wanted |-> audit.pending, outcome |-> outcome])]

\* wrapper(*args, **kwargs) is entered
audit_call ==
    /\ audit.pc = "idle"
    /\ Len(audit.log) < MaxAuditCalls
    /\ \E c \in AuditedCalls :
          audit' = [audit EXCEPT !.pc = "enter", !.call = c, !.audit_data = NoAuditData]
    /\ UNCHANGED <<clock, AuditVars, cli, text, lookup>>

\* lines 88-101: operation_id is a fresh uuid4, start_time is now()
audit_enter ==
    /\ audit.pc = "enter"
    /\ audit' = [audit EXCEPT
          !.pc = "try",
          !.audit_data = [NoAuditData EXCEPT
               !.operation_id = Len(audit.log) + 1,
               !.action_type = "operation",
               !.timestamp_start = clock,
               !.user = "user", !.hostname = "host", !.source_ip = "ip",
               !.arguments = RedactedArguments(audit.call.kwargs)]]
    /\ UNCHANGED <<clock, AuditVars, cli, text, lookup>>

\* line 98: socket.gethostbyname(socket.gethostname()) raises before the
\* try; the wrapped function is not called and nothing is written
audit_resolve_raises ==
    /\ audit.pc = "enter"
    /\ AuditReturns(FALSE, Raised("gaierror"), audit.files)
    /\ UNCHANGED <<clock, AuditVars, cli, text, lookup>>

\* lines 105-115: the function returns; end_time is a later now()
audit_func_returns ==
    /\ audit.pc = "try"
    /\ audit.call.func = "returns"
    /\ \E d \in {0, 1} :
        /\ clock + d <= MaxClock
        /\ clock' = clock + d
        /\ audit' = [audit EXCEPT
              !.pc = "finally",
              !.pending = Returned("result"),
              !.audit_data = [@ EXCEPT !.status = "success",
                                       !.timestamp_end = clock + d,
                                       !.duration_ms = ((clock + d) - audit.audit_data.timestamp_start) * 1000]]
    /\ UNCHANGED <<AuditVars, cli, text, lookup>>

\* lines 117-127: the function raises; the exception is raised again
audit_func_raises ==
    /\ audit.pc = "try"
    /\ audit.call.func = "raises"
    /\ \E d \in {0, 1} :
        /\ clock + d <= MaxClock
        /\ clock' = clock + d
        /\ audit' = [audit EXCEPT
              !.pc = "finally",
              !.pending = Raised("ValueError"),
              !.audit_data = [@ EXCEPT !.status = "error",
                                       !.timestamp_end = clock + d,
                                       !.duration_ms = ((clock + d) - audit.audit_data.timestamp_start) * 1000,
                                       !.error_type = "ValueError",
                                       !.error_message = "failed"]]
    /\ UNCHANGED <<AuditVars, cli, text, lookup>>

\* lines 129-133: the entry is written, then the pending return or raise
\* takes place
audit_write_entry ==
    /\ audit.pc = "finally"
    /\ Serializable(audit.audit_data)
    /\ AuditReturns(TRUE, audit.pending,
                    Append(audit.files, [state |-> "ok", data |-> audit.audit_data]))
    /\ UNCHANGED <<clock, AuditVars, cli, text, lookup>>

\* line 132: open(log_path, 'w') raises inside finally; its exception
\* replaces the pending return or raise
audit_open_raises ==
    /\ audit.pc = "finally"
    /\ AuditReturns(TRUE, Raised("OSError"), audit.files)
    /\ UNCHANGED <<clock, AuditVars, cli, text, lookup>>

\* line 133: json.dump raises TypeError on an argument it cannot serialize,
\* after the file was created and its first keys written
audit_dump_raises ==
    /\ audit.pc = "finally"
    /\ ~Serializable(audit.audit_data)
    /\ AuditReturns(TRUE, Raised("TypeError"),
                    Append(audit.files,
                           [state |-> "partial",
                            data |-> [NoAuditData EXCEPT
                               !.operation_id = audit.audit_data.operation_id,
                               !.action_type = audit.audit_data.action_type,
                               !.timestamp_start = audit.audit_data.timestamp_start,
                               !.user = "user", !.hostname = "host",
                               !.source_ip = "ip"]]))
    /\ UNCHANGED <<clock, AuditVars, cli, text, lookup>>

NextAudit ==
    \/ audit_call
    \/ audit_enter
    \/ audit_resolve_raises
    \/ audit_func_returns
    \/ audit_func_raises
    \/ audit_write_entry
    \/ audit_open_raises
    \/ audit_dump_raises

SpecAudit == InitAudit /\ [][NextAudit]_vars

\* ------------------------------------------------------------ observations
Done(p) == pc[p] = "done"
Outcome(p) == loc[p].result
\* PolicyStore.getRecord: the type's entry of the metadata file
getRecord(f, t) == load_credential_metadata(f)[t]
\* the engine (credentials.py:366-367) reads 'expiration'; records written
\* only by security.py carry 'expiration_date'
ExpiresAt(rec) == IF rec.expiration # Absent THEN rec.expiration ELSE rec.expiration_date
RotationCount(rec) == IF rec.rotations = Absent THEN 0 ELSE rec.rotations
\* the live store has a line  t=value
StoreHolds(f, t, value) ==
    f.state = "ok" /\ \E i \in DOMAIN f.lines : f.lines[i] = <<t, value>>
\* between the read of the live store (393) and the end of its write (411)
InStoreUpdate(p) == pc[p] \in {"uef_backup", "uef_open", "uef_write"}
Validation(p) == validate_credential_strength(loc[p].cand, loc[p].ctype)

\* the types listed in a sequence of reports
ListedTypes(reports) == {reports[i].credential_type : i \in DOMAIN reports}
\* the tier a credential ends in after the scan (510), the filter (513-516)
\* and the grouping of generate_report (297-305)
ReportedTier(expiration_results, warnings, k) ==
    IF \E i \in DOMAIN warnings : warnings[i].credential_type = k
    THEN ReportBucket((CHOOSE w \in {warnings[i] : i \in DOMAIN warnings} :
                          w.credential_type = k).days_remaining)
    ELSE IF \E i \in DOMAIN expiration_results :
                /\ expiration_results[i].credential_type = k
                /\ expiration_results[i].status = "expired"
         THEN "expired"
         ELSE "omitted"
\* the entries of the metadata file that carry an expiration
Expiring(f) == {k \in MetaKeys : getRecord(f, k).present /\ getRecord(f, k).expiration # Absent}

\* the entries of logs/audit written by the i-th call of the wrapper
EntriesOf(i) == {j \in DOMAIN audit.files : audit.files[j].data.operation_id = i}

C7_SecondFactorGate ==
    \A p \in Procs :
        /\ pc[p] \notin {"idle", "two_factor"}
              => (gh[p].hookCalled <=> (loc[p].ctype \in TwoFactorTypes /\ ~loc[p].skip))
        /\ gh[p].hookDenied
              => /\ Done(p) /\ Outcome(p) = "rejected_second_factor"
                 /\ loc[p].cand = NoCand /\ ~gh[p].wrote
                 /\ ~gh[p].overlap => (envFile = gh[p].snapEnv /\ metaFile = gh[p].snapMeta)
        /\ Outcome(p) = "rejected_second_factor" => gh[p].hookDenied

C7_Witness ==
    \E p \in Procs :
        Done(p) /\ gh[p].hookDenied /\ Outcome(p) = "rejected_second_factor"

C11_TierByTable ==
    cli.pc = "report" =>
        \A k \in Expiring(metaFile) :
            LET d == days_remaining(getRecord(metaFile, k).expiration, cli.now)
            IN  ReportedTier(cli.expiration_results, cli.warnings, k)
                  = (IF d <= 0 THEN "expired"
                     ELSE IF d <= 1 THEN "critical"
                     ELSE IF d <= 7 THEN "high"
                     ELSE IF d <= 30 THEN "medium"
                     ELSE IF d <= 90 THEN "low"
                     ELSE "omitted")

\* C12: a credential with days_remaining <= 0 is in the scan result as
\* expired, stays in the list of warnings that the report counts, and is
\* among the types that --auto-rotate rotates.
C12_ExpiredIsReportedAndRotated ==
    /\ cli.pc = "report" =>
          \A k \in Expiring(metaFile) :
              days_remaining(getRecord(metaFile, k).expiration, cli.now) <= 0
                 => \E i \in DOMAIN cli.expiration_results :
                       /\ cli.expiration_results[i].credential_type = k
                       /\ cli.expiration_results[i].status = "expired"
    /\ \A i \in DOMAIN cli.expiration_results :
          cli.expiration_results[i].status = "expired"
             => /\ cli.expiration_results[i].credential_type \in ListedTypes(cli.warnings)
                /\ \E j \in DOMAIN CredentialsToRotate(cli.warnings) :
                      CredentialsToRotate(cli.warnings)[j]
                         = cli.expiration_results[i].credential_type

C13_ScoringBoundaries ==
    (text.pc = "validated" /\ text.credential_type \notin ExemptTypes) =>
        /\ text.credential = Text_Ab1 => (~text.result.valid /\ "length" \in text.issues)
        /\ text.credential = Text_Abcdef12 => (text.result.valid /\ text.result.score = 100)
        /\ text.credential = Text_Password123
              => (~text.result.valid /\ "common pattern" \in text.issues)

\* C13 amended: "Ab1!" is invalid for its length; "Abcdef12!@" is invalid,
\* for its length of 10 and its run "abc", and scores 65; "Password123!" is
\* invalid for holding "password" and scores 70, 20 less for the pattern and
\* 10 less for the run "123".
C13_ScoringBoundariesOfTheCode ==
    (text.pc = "validated" /\ text.credential_type \notin ExemptTypes) =>
        /\ text.credential = Text_Ab1 => (~text.result.valid /\ "length" \in text.issues)
        /\ text.credential = Text_Abcdef12
              => /\ ~text.result.valid
                 /\ text.issues = {"length", "sequential"}
                 /\ text.result.score = 65
        /\ text.credential = Text_Password123
              => /\ ~text.result.valid
                 /\ text.issues = {"common pattern", "sequential"}
                 /\ text.result.score = 70

C13_Witness ==
    /\ text.pc = "validated"
    /\ text.credential_type \notin ExemptTypes
    /\ text.credential = Text_Abcdef12
    /\ text.result.score = 65

\* C14: the score of every text is an integer from 0 to 100, and valid is
\* false exactly when one of the checks flagged the text.
C14_ScoreRangeAndValidity ==
    text.pc = "validated" =>
        /\ text.result.score \in 0..100
        /\ text.result.valid <=> (text.issues = {})

C14_Witness ==
    /\ text.pc = "validated"
    /\ text.credential_type \notin ExemptTypes
    /\ ~text.result.valid
    /\ text.result.score = 0
    /\ StrengthScore(Features(text.credential)) < 0

\* C15: every request that leaves the process is the range endpoint followed
\* by the 5-character prefix of the digest and nothing else, so two passwords
\* with the same prefix give the same request.
C15_OnlyPrefixIsSent ==
    /\ \A i \in DOMAIN lookup.log :
          /\ lookup.log[i].request.url
                = HAVEIBEENPWNED_API \o SubSeq(sha1_hexdigest_upper(lookup.log[i].password), 1, 5)
          /\ Len(lookup.log[i].request.url) = Len(HAVEIBEENPWNED_API) + 5
    /\ \A i, j \in DOMAIN lookup.log :
          SubSeq(sha1_hexdigest_upper(lookup.log[i].password), 1, 5)
             = SubSeq(sha1_hexdigest_upper(lookup.log[j].password), 1, 5)
          => lookup.log[i].request = lookup.log[j].request
    /\ Len(lookup.sent) = Len(lookup.log) + (IF lookup.pc = "wait" THEN 1 ELSE 0)
    /\ \A i \in DOMAIN lookup.log : lookup.sent[i] = lookup.log[i].request

C15_Witness ==
    \E i, j \in DOMAIN lookup.log :
        /\ lookup.log[i].password # lookup.log[j].password
        /\ sha1_hexdigest_upper(lookup.log[i].password)
              # sha1_hexdigest_upper(lookup.log[j].password)
        /\ lookup.log[i].request = lookup.log[j].request

\* C16: a lookup that failed is never reported as breached, and what the
\* caller gets from a lookup that failed differs from what it gets from a
\* lookup that completed.
C16_FailedLookupIsDistinguishable ==
    /\ \A i \in DOMAIN lookup.log :
          ~lookup.log[i].completed => lookup.log[i].returned = 0
    /\ \A i, j \in DOMAIN lookup.log :
          lookup.log[i].completed # lookup.log[j].completed
             => lookup.log[i].returned # lookup.log[j].returned

\* C17: every call through the wrapper writes exactly one entry; a return
\* value is forwarded with status success, an exception is raised again
\* with status error, its type and its message; the entry has its start
\* time, end time and duration.
C17_OneEntryPerCall ==
    \A i \in DOMAIN audit.log :
        /\ Cardinality(EntriesOf(i)) = 1
        /\ \A j \in EntriesOf(i) :
              /\ audit.files[j].state = "ok"
              /\ audit.files[j].data.timestamp_end >= audit.files[j].data.timestamp_start
              /\ audit.files[j].data.duration_ms
                    = (audit.files[j].data.timestamp_end
                         - audit.files[j].data.timestamp_start) * 1000
              /\ audit.log[i].call.func = "returns"
                    => /\ audit.log[i].outcome = Returned("result")
                       /\ audit.files[j].data.status = "success"
              /\ audit.log[i].call.func = "raises"
                    => /\ audit.log[i].outcome = Raised("ValueError")
                       /\ audit.files[j].data.status = "error"
                       /\ audit.files[j].data.error_type = "ValueError"
                       /\ audit.files[j].data.error_message = "failed"

\* C18: no entry holds the value of an argument whose name is, without
\* regard to case, credential, password, token or key.
C18_SensitiveArgumentsRedacted ==
    \A i \in DOMAIN audit.log :
        \A j \in EntriesOf(i) :
            \A kv \in audit.log[i].call.kwargs :
                Lower(kv[1]) \in SensitiveNames
                   => \A rec \in audit.files[j].data.arguments : rec[2] # kv[2]

\* C21: the fingerprint of a non-empty secret is never the secret itself:
\* neither mask_credential returns its argument, and the masked_value a record
\* stores differs from the secret it was made from.
C21_FingerprintIsNeverTheSecret ==
    (text.pc \in {"masked", "stored"} /\ text.credential # <<>>)
        => /\ text.masked # text.credential
           /\ text.monolith_masked # text.credential
           /\ \A k \in CREDENTIAL_TYPES :
                 getRecord(metaFile, k).masked_value # text.credential

\* C22: a generated text has exactly the requested number of characters, all
\* from the alphabet of the requested complexity, and the candidate of a
\* rotation of a configured type has that type's configured length and
\* complexity.
C22_CandidateMatchesPolicy ==
    text.pc = "gen_done"
        => /\ text.gen.by = "call"
                => /\ text.gen.emitted = text.gen.length
                   /\ text.gen.used \subseteq Alphabet(text.gen.complexity)
           /\ (text.gen.by # "call" /\ text.gen.credential_type \in CREDENTIAL_TYPES)
                => /\ text.gen.emitted = policy_length(text.gen.credential_type)
                   /\ text.gen.complexity = policy_complexity(text.gen.credential_type)

\* C22, the part about the generator alone
C22_GeneratorLengthAndAlphabet ==
    (text.pc = "gen_done" /\ text.gen.by # "monolith rotate_credential")
        => /\ text.gen.emitted = text.gen.length
           /\ text.gen.used \subseteq Alphabet(text.gen.complexity)

\* C23: a reader running while a save is in progress sees complete metadata:
\* what a load returns (in init_credential_metadata or in a scan) holds
\* every record that was in the file before the saves began, none of which a
\* save removes or changes.
C23_ReadersSeeCompleteMetadata ==
    \A p \in Procs :
        pc[p] \in {"initialize_save_open", "initialize_save_dump", "scanned"}
            => \A k \in MetaKeys :
                  gh[p].snapMeta.data[k].present => loc[p].metadata[k] = gh[p].snapMeta.data[k]

\* the state of the attempt a caller is in, by its position in rotate_credential
AttemptState(p) ==
    CASE pc[p] = "idle" -> "NONE"
      [] pc[p] = "two_factor" -> "SECOND_FACTOR_PENDING"
      [] pc[p] = "call_security" -> "SECOND_FACTOR_PASSED"
      [] pc[p] \in {"sec_load", "sec_save_open", "sec_save_dump", "validate", "breach"}
            -> "CANDIDATE_GENERATED"
      [] pc[p] = "done" -> IF loc[p].result = "accepted" THEN "PERSISTED" ELSE "REJECTED"
      [] OTHER -> "VALIDATED"
StateRank(state) ==
    CASE state = "NONE" -> 0
      [] state = "SECOND_FACTOR_PENDING" -> 1
      [] state = "SECOND_FACTOR_PASSED" -> 2
      [] state = "CANDIDATE_GENERATED" -> 3
      [] state = "VALIDATED" -> 4
      [] OTHER -> 5

C24_ForwardOnly ==
    [][\A p \in {"c1"} :
          /\ pc'[p] # "idle" => StateRank(AttemptState(p)') >= StateRank(AttemptState(p))
          /\ (pc[p] = "done" /\ pc'[p] # "idle") => loc'[p].result = loc[p].result]_vars

\* the lines of a store content that belong to key k, in order
EntriesFor(content, k) == SelectSeq(content, LAMBDA line : line[1] = k)

\* C25: the backup holding the pre-change content is written before the live
\* store is opened for writing, and a backup once written is never changed
\* or removed by a later apply.
C25_BackupFirstAndRetained ==
    [][/\ \A p \in {"c1"} :
             (pc[p] = "uef_open" /\ envFile' # envFile)
                => backups[loc[p].backup_env_path] = EnvFileOf(loc[p].env_content)
       /\ \A st \in Stamps : backups[st].state = "ok" => backups'[st] = backups[st]]_vars

\* C25, the first half: the backup is there before the live store is touched
C25_BackupBeforeWrite ==
    [][\A p \in {"c1"} :
          (pc[p] = "uef_open" /\ envFile' # envFile)
             => backups[loc[p].backup_env_path] = EnvFileOf(loc[p].env_content)]_vars

\* C26: after an apply that wrote the store, the store has exactly one entry
\* for the type, holding the new secret, and the entries of all other keys
\* are those of before the call, also when the type had no entry before.
C26_ExactlyTheEntryIsReplaced ==
    \A p \in {"c1"} :
        (pc[p] = "done" /\ gh[p].wrote /\ gh[p].snapEnv.state = "ok" /\ envFile.state = "ok")
            => /\ EntriesFor(envFile.lines, loc[p].ctype) = << <<loc[p].ctype, loc[p].cand.id>> >>
               /\ \A k \in Types \ {loc[p].ctype} :
                     EntriesFor(envFile.lines, k) = EntriesFor(gh[p].snapEnv.lines, k)

\* C26 for a store that has a line for every type
C26_EntryReplacedWhenPresent ==
    \A p \in {"c1"} :
        (pc[p] = "done" /\ gh[p].wrote /\ gh[p].snapEnv.state = "ok" /\ envFile.state = "ok"
           /\ EntriesFor(gh[p].snapEnv.lines, loc[p].ctype) # <<>>)
            => /\ EntriesFor(envFile.lines, loc[p].ctype) = << <<loc[p].ctype, loc[p].cand.id>> >>
               /\ \A k \in Types \ {loc[p].ctype} :
                     EntriesFor(envFile.lines, k) = EntriesFor(gh[p].snapEnv.lines, k)

C28_ScanIsReadOnly ==
    [][\A p \in Procs :
          calls'[p] = calls[p] + 1
             => /\ metaFile' = metaFile
                /\ envFile' = envFile
                /\ backups' = backups
                /\ loc'[p].credential_metadata = loc[p].credential_metadata]_vars

\* both kinds of scan have run, the scan of security.py in a state where the
\* file no longer holds what the module has in memory, and has warned
C28_Witness ==
    /\ calls["c1"] > 0
    /\ calls["c2"] > 0
    /\ loc["c1"].credential_metadata # load_credential_metadata(metaFile)
    /\ loc["c1"].warnings # <<>>
    /\ loc["c2"].warnings # <<>>

RotationOutcomes == {"accepted", "rejected_weak", "rejected_breached",
                     "rejected_second_factor", "storage_failure"}

\* C30: every rotation that has ended has ended with one of the five
\* outcomes: whatever was raised inside it was turned into one of them.
C30_EndsWithAListedOutcome ==
    \A p \in {"c1"} : Done(p) => Outcome(p) \in RotationOutcomes

\* C30, termination: a rotation that has started ends
C30_Terminates == (pc["c1"] # "idle") ~> Done("c1")

====
